---- MODULE Spec2Model ----
(***************************************************************************)
(* Model of the ring buffer traits of src/ringbuffer_trait.rs: the shared  *)
(* len / clear / skip / get / get_mut / front / front_mut bodies generated *)
(* by the impl_ringbuffer, impl_read_ringbuffer and impl_ringbuffer_ext    *)
(* macros, the trait defaults is_empty / is_full / back / iter / to_vec,   *)
(* the two iterators, and the backend operations push / pop / push_force / *)
(* mask the traits declare.                                                *)
(***************************************************************************)
EXTENDS Integers, Sequences, FiniteSets, TLC

(* ---- bounds of the model ---- *)
MaxCap == 3
MaxPtr == 5
MaxItem == 2
UsizeBits == 5

USIZE == 2 ^ UsizeBits
Items == 1 .. MaxItem
Uninit == 0

VARIABLES
    readptr,          \* self.$readptr
    writeptr,         \* self.$writeptr
    buf,              \* the backing store, slot -> element
    capacity,         \* self.capacity(), fixed at construction
    kind,             \* the backend's masking function: "and" or "mod"
    overflow_checks,  \* build profile: usize arithmetic panics or wraps
    log,              \* history: the items written since construction / clear
    popped,           \* history: the items pop returned in a push/pop-only run
    run,              \* history: which operations ran since construction / clear
    last,             \* history: the last call, its result and the state before
    it                \* the live RingBufferIterator / RingBufferMutIterator, if any

vars == <<readptr, writeptr, buf, capacity, kind, overflow_checks, log, popped, run, last, it>>

Self == [readptr |-> readptr, writeptr |-> writeptr, buf |-> buf,
         capacity |-> capacity, kind |-> kind]

(* ---- results ---- *)
Res(tag, val) == [tag |-> tag, val |-> val]
None == Res("None", 0)
Some(x) == Res("Some", x)
Ok == Res("Ok", 0)
Err(x) == Res("Err", x)
Unit == Res("Unit", 0)
Panic == Res("Panic", 0)

(* ---- usize arithmetic ---- *)
wrapping_add(a, b) == (a + b) % USIZE
wrapping_sub(a, b) == (a - b + USIZE) % USIZE

RECURSIVE BitAnd(_, _)
BitAnd(a, b) ==
    IF a = 0 \/ b = 0 THEN 0
    ELSE (a % 2) * (b % 2) + 2 * BitAnd(a \div 2, b \div 2)

IsPowerOfTwo(n) == \E k \in 0 .. UsizeBits : n = 2 ^ k

(* the backend's $mask: bitmask for power-of-two stores, modulo otherwise *)
mask(self, index) ==
    IF self.kind = "and" THEN BitAnd(index, self.capacity - 1)
    ELSE index % self.capacity

(* ---- RingBuffer ---- *)
\* len() off by one (a faulty variant of len)
len_plus_one(self) == wrapping_add(wrapping_sub(self.writeptr, self.readptr), 1)

len(self) == wrapping_sub(self.writeptr, self.readptr)

\* `self.writeptr - self.readptr` underflows: a panic with overflow checks on
len_panics(self) == overflow_checks /\ self.writeptr < self.readptr

is_empty(self) == len(self) = 0

\* is_full() one element early / one element late (faulty variants of is_full)
is_full_one_early(self) == len(self) = self.capacity - 1
is_full_one_late(self) == len(self) = self.capacity + 1

is_full(self) == len(self) = self.capacity

(* ---- RingBufferExt ---- *)
\* the slot get / get_mut hand to $get_unchecked
get_masked_index(self, index) == mask(self, wrapping_add(self.readptr, index))

\* get() that forgets the readptr offset (a faulty variant of get)
get_no_offset(self, index) ==
    IF len_panics(self) THEN Panic
    ELSE IF is_empty(self) \/ index >= len(self) THEN None
    ELSE Some(self.buf[mask(self, index)])

get(self, index) ==
    IF len_panics(self) THEN Panic
    ELSE IF is_empty(self) \/ index >= len(self) THEN None
    ELSE Some(self.buf[get_masked_index(self, index)])

get_mut(self, index) ==
    IF len_panics(self) THEN Panic
    ELSE IF is_empty(self) \/ index >= len(self) THEN None
    ELSE Some(self.buf[get_masked_index(self, index)])

\* the slot front / front_mut hand to $get_unchecked
front_masked_index(self) == mask(self, wrapping_sub(self.writeptr, 1))

front(self) ==
    IF len_panics(self) THEN Panic
    ELSE IF ~is_empty(self) THEN Some(self.buf[front_masked_index(self)])
    ELSE None

back(self) == get(self, 0)

\* RingBufferIterator: next() is get(index), then index += 1; the items
\* collected from `index` on until the first None
RECURSIVE iter_from(_, _)
iter_from(self, index) ==
    LET res == get(self, index)
    IN  IF res.tag = "Some" THEN <<res.val>> \o iter_from(self, index + 1)
        ELSE <<>>

to_vec(self) == iter_from(self, 0)

\* no iterator borrows the buffer
NoIter == [kind |-> "none", index |-> 0, yielded |-> <<>>, done |-> FALSE]

\* RingBufferIterator::new / RingBufferMutIterator::new: index starts at 0
\* (yielded and done are history: the items returned, and whether a None was)
new_iter(k) == [kind |-> k, index |-> 0, yielded |-> <<>>, done |-> FALSE]

(* ---- construction ---- *)
Backends ==
    {[kind |-> "and", capacity |-> c] : c \in {c \in 1 .. MaxCap : IsPowerOfTwo(c)}}
    \cup {[kind |-> "mod", capacity |-> c] : c \in 1 .. MaxCap}

Init ==
    /\ \E b \in Backends : capacity = b.capacity /\ kind = b.kind
    /\ overflow_checks \in BOOLEAN
    /\ readptr = 0
    /\ writeptr = 0
    /\ buf = [s \in 0 .. capacity - 1 |-> Uninit]
    /\ log = <<>>
    /\ popped = <<>>
    /\ run = "new"
    /\ last = [op |-> "new", arg |-> 0, ret |-> Unit, pre |-> Self]
    /\ it = NoIter

Call(op, arg, ret) == [op |-> op, arg |-> arg, ret |-> ret, pre |-> Self]

\* a call that panicked before it changed anything
Panicked(op, arg) ==
    /\ last' = Call(op, arg, Panic)
    /\ UNCHANGED <<readptr, writeptr, buf, capacity, kind, overflow_checks, log, popped, run>>

\* the borrow rules: a call taking &mut self needs no iterator alive
Unborrowed == it.kind = "none" /\ UNCHANGED it

\* the run after a pop: still a push/pop-only run, or mixed
PopRun == IF run \in {"new", "push", "pushpop"} THEN "pushpop" ELSE "mixed"

(* ---- operations ---- *)
\* skip() that does not advance readptr (a faulty variant of skip)
skip_no_advance(self) == self.readptr

\* skip() that advances readptr by two (a faulty variant of skip)
skip_by_two(self) == self.readptr + 2

skip_readptr(self) == self.readptr + 1

Skip ==
    /\ Unborrowed
    /\ readptr < MaxPtr
    /\ readptr' = skip_readptr(Self)
    /\ run' = "mixed"
    /\ popped' = <<>>
    /\ last' = Call("skip", 0, Unit)
    /\ UNCHANGED <<writeptr, buf, capacity, kind, overflow_checks, log>>

\* clear() that resets readptr only (a faulty variant of clear)
ClearReadptrOnly ==
    /\ Unborrowed
    /\ readptr' = 0
    /\ run' = "mixed"
    /\ popped' = <<>>
    /\ last' = Call("clear", 0, Unit)
    /\ UNCHANGED <<writeptr, buf, capacity, kind, overflow_checks, log>>

Clear ==
    /\ Unborrowed
    /\ readptr' = 0
    /\ writeptr' = 0
    /\ log' = <<>>
    /\ popped' = <<>>
    /\ run' = "new"
    /\ last' = Call("clear", 0, Unit)
    /\ UNCHANGED <<buf, capacity, kind, overflow_checks>>

\* push as a function of the buffer: the buffer after the call and its result
push(self, item) ==
    IF len_panics(self) THEN [self |-> self, ret |-> Panic]
    ELSE IF is_full(self) THEN [self |-> self, ret |-> Err(item)]
    ELSE [self |-> [self EXCEPT !.buf[mask(self, self.writeptr)] = item,
                                !.writeptr = self.writeptr + 1],
          ret |-> Ok]

Push(item) ==
    Unborrowed /\
    IF len_panics(Self) THEN Panicked("push", item)
    ELSE IF is_full(Self)
    THEN /\ last' = Call("push", item, push(Self, item).ret)
         /\ UNCHANGED <<readptr, writeptr, buf, capacity, kind, overflow_checks, log, popped, run>>
    ELSE /\ writeptr < MaxPtr
         /\ buf' = push(Self, item).self.buf
         /\ writeptr' = push(Self, item).self.writeptr
         /\ log' = Append(log, item)
         /\ run' = IF run \in {"new", "push"} THEN "push" ELSE "mixed"
         /\ popped' = <<>>
         /\ last' = Call("push", item, push(Self, item).ret)
         /\ UNCHANGED <<readptr, capacity, kind, overflow_checks>>

\* pop as a function of the buffer: the buffer after the call and its result
pop(self) ==
    IF len_panics(self) THEN [self |-> self, ret |-> Panic]
    ELSE IF is_empty(self) THEN [self |-> self, ret |-> None]
    ELSE [self |-> [self EXCEPT !.readptr = self.readptr + 1],
          ret |-> Some(self.buf[mask(self, self.readptr)])]

Pop ==
    Unborrowed /\
    IF len_panics(Self) THEN Panicked("pop", 0)
    ELSE IF is_empty(Self)
    THEN /\ last' = Call("pop", 0, pop(Self).ret)
         /\ run' = PopRun
         /\ UNCHANGED <<readptr, writeptr, buf, capacity, kind, overflow_checks, log, popped>>
    ELSE /\ readptr < MaxPtr
         /\ readptr' = pop(Self).self.readptr
         /\ run' = PopRun
         /\ popped' = IF PopRun = "pushpop" THEN Append(popped, pop(Self).ret.val)
                      ELSE <<>>
         /\ last' = Call("pop", 0, pop(Self).ret)
         /\ UNCHANGED <<writeptr, buf, capacity, kind, overflow_checks, log>>

\* push_force that discards the oldest element even when not full
\* (a faulty variant of push_force)
push_force_always_skips(self, value) ==
    IF len_panics(self) THEN [self |-> self, ret |-> Panic]
    ELSE [self |-> [self EXCEPT !.readptr = skip_readptr(self),
                                !.buf[mask(self, self.writeptr)] = value,
                                !.writeptr = self.writeptr + 1],
          ret |-> Unit]

\* push_force as a function of the buffer
push_force(self, value) ==
    IF len_panics(self) THEN [self |-> self, ret |-> Panic]
    ELSE [self |-> [self EXCEPT !.readptr = IF is_full(self) THEN skip_readptr(self)
                                            ELSE self.readptr,
                                !.buf[mask(self, self.writeptr)] = value,
                                !.writeptr = self.writeptr + 1],
          ret |-> Unit]

PushForce(value) ==
    Unborrowed /\
    IF len_panics(Self) THEN Panicked("push_force", value)
    ELSE /\ writeptr < MaxPtr
         /\ readptr' = push_force(Self, value).self.readptr
         /\ buf' = push_force(Self, value).self.buf
         /\ writeptr' = push_force(Self, value).self.writeptr
         /\ log' = Append(log, value)
         /\ run' = IF run \in {"new", "force"} THEN "force" ELSE "mixed"
         /\ popped' = <<>>
         /\ last' = Call("push_force", value, push_force(Self, value).ret)
         /\ UNCHANGED <<capacity, kind, overflow_checks>>

\* `*self.get_mut(index)? = value` as a function of the buffer
set_mut(self, index, value) ==
    IF get_mut(self, index).tag = "Some"
    THEN [self EXCEPT !.buf[get_masked_index(self, index)] = value]
    ELSE self

\* a write through the reference get_mut(index) returns, if it returns one
SetMut(index, value) ==
    /\ Unborrowed
    /\ buf' = set_mut(Self, index, value).buf
    /\ log' = IF get_mut(Self, index).tag = "Some" /\ readptr + index < Len(log)
              THEN [log EXCEPT ![readptr + index + 1] = value]
              ELSE log
    /\ run' = "mixed"
    /\ popped' = <<>>
    /\ last' = Call("get_mut", <<index, value>>, get_mut(Self, index))
    /\ UNCHANGED <<readptr, writeptr, capacity, kind, overflow_checks>>

\* FromIterator by sequential push: the buffer after pushing items in order
RECURSIVE push_all(_, _)
push_all(self, items) ==
    IF items = <<>> THEN self
    ELSE push_all(push(self, Head(items)).self, Tail(items))

\* a new, empty buffer of the same backend and capacity
fresh(self) ==
    [self EXCEPT !.readptr = 0, !.writeptr = 0,
                 !.buf = [s \in 0 .. self.capacity - 1 |-> Uninit]]

(* ---- iterators ---- *)
Iter ==
    /\ it.kind = "none"
    /\ it' = new_iter("iter")
    /\ last' = Call("iter", 0, Unit)
    /\ UNCHANGED <<readptr, writeptr, buf, capacity, kind, overflow_checks, log, popped, run>>

IterMut ==
    /\ it.kind = "none"
    /\ it' = new_iter("iter_mut")
    /\ last' = Call("iter_mut", 0, Unit)
    /\ UNCHANGED <<readptr, writeptr, buf, capacity, kind, overflow_checks, log, popped, run>>

\* next(): res = obj.get(index) (get_mut for the mutable iterator);
\* index += 1; res.  A panic in get leaves index as it was.
iter_next(i, res) ==
    IF res = Panic THEN i
    ELSE [i EXCEPT !.index = i.index + 1,
                   !.yielded = IF res.tag = "Some" THEN Append(i.yielded, res.val)
                               ELSE i.yielded,
                   !.done = i.done \/ res = None]

IterNext ==
    /\ it.kind = "iter"
    /\ it.index <= MaxCap + 1
    /\ it' = iter_next(it, get(Self, it.index))
    /\ last' = Call("next", it.index, get(Self, it.index))
    /\ UNCHANGED <<readptr, writeptr, buf, capacity, kind, overflow_checks, log, popped, run>>

IterMutNext ==
    /\ it.kind = "iter_mut"
    /\ it.index <= MaxCap + 1
    /\ it' = iter_next(it, get_mut(Self, it.index))
    /\ last' = Call("next_mut", it.index, get_mut(Self, it.index))
    /\ UNCHANGED <<readptr, writeptr, buf, capacity, kind, overflow_checks, log, popped, run>>

\* the iterator goes out of scope
IterDrop ==
    /\ it.kind # "none"
    /\ it' = NoIter
    /\ last' = Call("drop", 0, Unit)
    /\ UNCHANGED <<readptr, writeptr, buf, capacity, kind, overflow_checks, log, popped, run>>

Next ==
    \/ Skip
    \/ Clear
    \/ \E item \in Items : Push(item)
    \/ Pop
    \/ \E value \in Items : PushForce(value)

\* the queue operations: push, push_force, pop, skip and clear
Spec == Init /\ [][Next]_vars

NextExt ==
    \/ Skip
    \/ Clear
    \/ \E item \in Items : Push(item)
    \/ Pop
    \/ \E value \in Items : PushForce(value)
    \/ \E index \in 0 .. MaxCap, value \in Items : SetMut(index, value)
    \/ Iter
    \/ IterMut
    \/ IterNext
    \/ IterMutNext
    \/ IterDrop

\* the queue operations, writes through get_mut and the two iterators
SpecExt == Init /\ [][NextExt]_vars

(* ---- properties ---- *)
LastPre == last.pre
Indices == 0 .. MaxPtr + 1

\* C1: in every reachable state writeptr >= readptr, len() = writeptr -
\* readptr and len() <= capacity().
C1_PointerInvariant ==
    /\ writeptr >= readptr
    /\ len(Self) = writeptr - readptr
    /\ len(Self) <= capacity

\* C2: skip() on an empty buffer changes neither readptr, writeptr nor the
\* contents, and the buffer is still empty afterwards.
C2_SkipOnEmptyIsNoOp ==
    (last.op = "skip" /\ is_empty(LastPre)) =>
        /\ readptr = LastPre.readptr
        /\ writeptr = LastPre.writeptr
        /\ buf = LastPre.buf
        /\ is_empty(Self)

\* C3: push(item) on a full buffer returns Err(item) and changes nothing; on
\* a non-full buffer it returns Ok(()), advances writeptr by one, leaves
\* readptr alone and displaces no live element.
C3_PushContract ==
    last.op = "push" =>
        IF is_full(LastPre)
        THEN /\ last.ret = Err(last.arg)
             /\ Self = LastPre
        ELSE /\ last.ret = Ok
             /\ writeptr = LastPre.writeptr + 1
             /\ readptr = LastPre.readptr
             /\ \A p \in LastPre.readptr .. LastPre.writeptr - 1 :
                    buf[mask(Self, p)] = LastPre.buf[mask(Self, p)]

\* C4: while only push has been called, len() is the number of successful
\* pushes (never above capacity); the pops that follow return the pushed
\* items in push order, and None only once all of them were returned.
C4_Fifo ==
    /\ run \in {"new", "push"} =>
        /\ len(Self) = Len(log)
        /\ Len(log) <= capacity
    /\ run = "pushpop" =>
        /\ Len(popped) <= Len(log)
        /\ popped = SubSeq(log, 1, Len(popped))
        /\ len(Self) = Len(log) - Len(popped)
        /\ (last.op = "pop" /\ last.ret = None) => Len(popped) = Len(log)
        /\ (last.op = "pop" /\ last.ret # None) =>
               last.ret = Some(log[Len(popped)])

C4_Witness ==
    /\ run = "pushpop"
    /\ last.op = "pop"
    /\ Len(popped) >= 2
    /\ popped[1] # popped[2]

\* C5: after capacity() + k push_force calls on an empty buffer, len() =
\* capacity() and the buffer holds the last capacity() pushed items in push
\* order; a push_force on a full buffer keeps len() and removes only the
\* oldest element.
C5_OverwriteLaw ==
    /\ (run = "force" /\ Len(log) >= capacity) =>
        /\ len(Self) = capacity
        /\ to_vec(Self) = SubSeq(log, Len(log) - capacity + 1, Len(log))
    /\ (last.op = "push_force" /\ is_full(LastPre)) =>
        /\ last.ret = Unit
        /\ len(Self) = len(LastPre)
        /\ to_vec(Self) = Tail(to_vec(LastPre)) \o <<last.arg>>

C5_Witness ==
    /\ run = "force"
    /\ capacity >= 2
    /\ Len(log) >= capacity + 2
    /\ last.op = "push_force"
    /\ is_full(LastPre)

\* C6: pop() on an empty buffer returns None and changes nothing; on a
\* non-empty buffer it returns the element written at logical position
\* readptr, advances readptr by one and leaves writeptr and the store alone.
C6_PopContract ==
    last.op = "pop" =>
        IF is_empty(LastPre)
        THEN /\ last.ret = None
             /\ Self = LastPre
        ELSE /\ LastPre.readptr < Len(log)
             /\ last.ret = Some(log[LastPre.readptr + 1])
             /\ readptr = LastPre.readptr + 1
             /\ writeptr = LastPre.writeptr
             /\ buf = LastPre.buf

\* C7: in every reachable state, for 0 <= i < len(), get(i) is the element
\* written at logical position readptr + i.
C7_GetIsLogicalPosition ==
    \A i \in Indices :
        i < len(Self) =>
            /\ readptr + i < Len(log)
            /\ get(Self, i) = Some(log[readptr + i + 1])

\* C8: in every reachable state get(i) and get_mut(i) are None for every
\* i >= len(), and no slot outside the live window is ever returned.
C8_GetBeyondLenIsNone ==
    \A i \in Indices :
        /\ i >= len(Self) => (get(Self, i) = None /\ get_mut(Self, i) = None)
        /\ get(Self, i).tag = "Some" =>
               \E p \in readptr .. writeptr - 1 :
                   mask(Self, p) = get_masked_index(Self, i)

\* C9: in every reachable state front() is None exactly when the buffer is
\* empty, and otherwise the most recently written element, which is
\* get(len() - 1).
C9_FrontIsLastWritten ==
    /\ front(Self) = None <=> is_empty(Self)
    /\ ~is_empty(Self) =>
        /\ Len(log) >= 1
        /\ front(Self) = Some(log[Len(log)])
        /\ front(Self) = get(Self, len(Self) - 1)

\* C10: back() is get(0) and is what the next pop() returns: Some(x) when
\* back() is Some(x), None when back() is None.
C10_BackIsNextPop ==
    /\ back(Self) = get(Self, 0)
    /\ last.op = "pop" =>
        /\ back(LastPre).tag = "Some" => last.ret = back(LastPre)
        /\ back(LastPre) = None => last.ret = None

C10_Witness ==
    /\ last.op = "pop"
    /\ last.ret.tag = "Some"
    /\ last.ret.val \in Items
    /\ LastPre.readptr >= capacity
    /\ back(LastPre) = last.ret

\* C11: an iterator made by iter() yields exactly len() items, the i-th
\* being get(i), from the oldest to the most recently pushed, then None on
\* that call and every later one; to_vec() is that sequence.
C11_IterYieldsLenItems ==
    it.kind = "iter" =>
        /\ last.op = "next" => last.ret # Panic
        /\ Len(it.yielded) <= len(Self)
        /\ \A k \in 1 .. Len(it.yielded) : get(Self, k - 1) = Some(it.yielded[k])
        /\ readptr + Len(it.yielded) <= Len(log)
        /\ it.yielded = SubSeq(log, readptr + 1, readptr + Len(it.yielded))
        /\ it.done =>
            /\ Len(it.yielded) = len(Self)
            /\ it.yielded = to_vec(Self)
            /\ last.op = "next" => last.ret = None

\* C12: clear() sets readptr and writeptr to zero, so len() = 0 and
\* is_empty() holds, and leaves capacity() unchanged, also when the buffer
\* was already empty.
C12_ClearResets ==
    last.op = "clear" =>
        /\ readptr = 0
        /\ writeptr = 0
        /\ ~len_panics(Self)
        /\ len(Self) = 0
        /\ is_empty(Self)
        /\ capacity = LastPre.capacity

C12_Witness ==
    /\ last.op = "clear"
    /\ LastPre.readptr >= 1
    /\ LastPre.writeptr > LastPre.readptr

\* C13: wherever they return, is_full() = (len() = capacity()) and
\* is_empty() = (len() = 0); is_empty() is true exactly when readptr =
\* writeptr; is_full() and is_empty() are never both true.
C13_FullEmpty ==
    /\ ~len_panics(Self) =>
        /\ is_full(Self) = (len(Self) = capacity)
        /\ is_empty(Self) = (len(Self) = 0)
    /\ (~len_panics(Self) /\ is_empty(Self)) <=> (readptr = writeptr)
    /\ ~(is_full(Self) /\ is_empty(Self))

C13_Witness ==
    /\ is_full(Self)
    /\ ~is_empty(Self)
    /\ capacity >= 2
    /\ readptr >= 1

\* C14: pushing to_vec() of any reachable buffer, in order, into a fresh
\* buffer of the same capacity gives the same len() and the same iteration
\* order.
C14_RoundTrip ==
    /\ ~len_panics(Self)
    /\ len(push_all(fresh(Self), to_vec(Self))) = len(Self)
    /\ to_vec(push_all(fresh(Self), to_vec(Self))) = to_vec(Self)

LiveSlots == {mask(Self, p) : p \in readptr .. writeptr - 1}

\* C16: every slot get, get_mut, front and front_mut compute before the
\* unchecked access is in [0, capacity) and holds a live element.
C16_SlotsInBoundsAndLive ==
    /\ \A i \in Indices :
           (get(Self, i).tag = "Some" \/ get_mut(Self, i).tag = "Some") =>
               /\ get_masked_index(Self, i) \in 0 .. capacity - 1
               /\ get_masked_index(Self, i) \in LiveSlots
    /\ front(Self).tag = "Some" =>
           /\ front_masked_index(Self) \in 0 .. capacity - 1
           /\ front_masked_index(Self) \in LiveSlots

\* C17: two distinct live logical positions never share a slot, so a push or
\* push_force never overwrites an element that is still live.
C17_MaskInjectiveOnLiveWindow ==
    /\ \A p, q \in readptr .. writeptr - 1 :
           p # q => mask(Self, p) # mask(Self, q)
    /\ (last.op \in {"push", "push_force"} /\ last.ret \in {Ok, Unit}) =>
           \A p \in readptr .. writeptr - 2 :
               buf[mask(Self, p)] = LastPre.buf[mask(Self, p)]

C17_Witness ==
    /\ last.op = "push_force"
    /\ capacity >= 2
    /\ writeptr - readptr = capacity
    /\ readptr >= 2

\* C18: across push, push_force, pop and skip readptr and writeptr never
\* decrease and change by at most one; no call but clear() lowers them.
C18_PointersMonotonic ==
    /\ last.op \in {"push", "push_force", "pop", "skip"} =>
        /\ readptr \in {LastPre.readptr, LastPre.readptr + 1}
        /\ writeptr \in {LastPre.writeptr, LastPre.writeptr + 1}
    /\ last.op # "clear" =>
        /\ readptr >= LastPre.readptr
        /\ writeptr >= LastPre.writeptr

C18_Witness ==
    /\ last.op = "push_force"
    /\ readptr = LastPre.readptr + 1
    /\ writeptr = LastPre.writeptr + 1

\* C19: skip() leaves the buffer as pop() would; on a non-empty buffer it
\* removes the oldest element and len() decreases by one.
C19_SkipIsPopWithoutResult ==
    last.op = "skip" =>
        /\ Self = pop(LastPre).self
        /\ ~is_empty(LastPre) => len(Self) = len(LastPre) - 1

\* C20: get_mut(i) resolves to the element get(i) does; a write through it
\* for i < len() changes get(i) only, not get(j) for j # i, nor readptr,
\* writeptr or len(); the mutable iterator's k-th item is get_mut(k)'s.
C20_GetMutWritesOneElement ==
    /\ last.op = "get_mut" =>
        /\ last.ret = get(LastPre, last.arg[1])
        /\ readptr = LastPre.readptr
        /\ writeptr = LastPre.writeptr
        /\ len(Self) = len(LastPre)
        /\ last.arg[1] < len(LastPre) =>
            /\ get(Self, last.arg[1]) = Some(last.arg[2])
            /\ \A j \in Indices \ {last.arg[1]} : get(Self, j) = get(LastPre, j)
    /\ last.op = "next_mut" => last.ret = get_mut(LastPre, last.arg)

====
